---- MODULE Spec2Model ----
(***************************************************************************)
(* server.py: a webhook server with two background tasks.                  *)
(*   git_task     bootstraps every configured repository (init_git), then  *)
(*                serves git_queue: one git_pull_push per queued item.     *)
(*   gitlab_task  backfills every configured repository (init_statuses),   *)
(*                then serves gitlab_queue: one gitlab_update_pipeline per *)
(*                queued item.                                             *)
(*   github / gitlab   the two request handlers, which put items on the   *)
(*                queues.                                                  *)
(* Both queues and both tasks are process-wide (server.py:38, 131, 260,    *)
(* 261): there is one of each, shared by all repositories.                 *)
(*                                                                         *)
(* Every await on a subprocess or an HTTP call is one step of the model,   *)
(* and may succeed or fail; a failure raises out of the task, which ends.  *)
(* The payload of a request is opaque to the handlers: a field of it is    *)
(* drawn where the code reads it (event['builds'] when the event is        *)
(* received, j['status'] when the job is handed to commit_status_set).     *)
(***************************************************************************)
EXTENDS Integers, Sequences, FiniteSets, TLC

\* ------------------------------------------------------------------ bounds
\* webhook requests served in one run
MaxRequests == 2
\* jobs in one pipeline (the length of event['builds'] and of a jobs page)
MaxJobs == 2
\* pipelines the downstream host holds for a repository at startup
MaxHostPipelines == 1

\* ----------------------------------------------------------- configuration
\* config['repos'], in the order of the configuration file
RepoOrder == <<"A", "B">>

ConfigRepos == {RepoOrder[i] : i \in DOMAIN RepoOrder}

NRepos == Len(RepoOrder)

\* a repository name no configuration entry has
UnknownRepo == "nope"

\* request.match_info['repo']
RequestRepos == ConfigRepos \cup {UnknownRepo}

\* 'job_descriptions' in cfg['gitlab']
HasJobDescriptions(cfg) == cfg = "A"

\* cfg['gitlab']['job_descriptions']
JobDescriptions(cfg) == [t \in {"unit-tests"} |-> "Unit Tests"]

\* 'per_page': '5'
PerPage == 5

\* ------------------------------------------------------------ input values
\* request.headers['x-github-event']: the first two are the kinds the handler
\* names, the third stands for any other kind
GithubEvents == {"push", "pull_request", "ping"}

\* request.headers['x-gitlab-event']
GitlabEvents == {"Pipeline Hook", "Job Hook"}

\* a request without the event header
NoHeader == "<no header>"

\* a part of a request its handler did not get to read
Unread == "<unread>"

\* j['status']: the five statuses the code names, one it does not, and one
\* that differs from a named one by case only
RawStatuses ==
    {"success", "pending", "created", "running", "failed", "bogus", "Success"}

\* j['name'] of the k-th job of a pipeline
JobName(k) == IF k = 1 THEN "unit-tests" ELSE "job" \o ToString(k)

NoItem == [cfg |-> "<none>"]
NoJob == [name |-> "<none>"]
NoCall == [state |-> "<none>"]

\* ------------------------------------------------------------------ git refs
\* A ref is [name, commit]; a name is the sequence of its path components
\* (refs/heads/main is <<"refs", "heads", "main">>), so that a refspec's * can
\* be matched and rewritten.
Main == <<"refs", "heads", "main">>
Tag == <<"refs", "tags", "v1">>
PullHead == <<"refs", "pull", "1", "head">>

\* the fetch refspec of a --mirror clone, which init_git registers once more:
\* +refs/*:refs/*
FetchAll == [src |-> <<"refs">>, dst |-> <<"refs">>]

\* the fetch refspec init_git adds: +refs/pull/*:refs/heads/pull/*
FetchPulls == [src |-> <<"refs", "pull">>, dst |-> <<"refs", "heads", "pull">>]

\* name matches the pattern p/*
has_prefix(name, p) ==
    Len(name) > Len(p) /\ SubSeq(name, 1, Len(p)) = p

\* the name a refspec rewrites a matching name to
map_ref(spec, name) ==
    spec.dst \o SubSeq(name, Len(spec.src) + 1, Len(name))

\* the refs a fetch with these refspecs brings from remote
fetched(specs, remote) ==
    {[name |-> map_ref(p[1], p[2].name), commit |-> p[2].commit] :
        p \in {q \in specs \X remote : has_prefix(q[2].name, q[1].src)}}

\* a local ref the refspecs cover that no ref of remote maps to (what -p prunes)
stale(specs, remote, l) ==
    /\ \E sp \in specs : has_prefix(l.name, sp.dst)
    /\ \A f \in fetched(specs, remote) : f.name # l.name

\* git remote update -p: every refspec is forced (+), stale refs are pruned
fetch(specs, remote, refs) ==
    fetched(specs, remote)
    \cup {l \in refs : /\ \A f \in fetched(specs, remote) : f.name # l.name
                       /\ ~stale(specs, remote, l)}

\* git clone --bare --mirror: a repository with refspec +refs/*:refs/* and the
\* refs a first fetch brings
clone_mirror(remote) ==
    [refs |-> fetch({FetchAll}, remote, {}), fetch |-> {FetchAll}]

\* a push that deletes nothing (git push --all)
push_no_delete(refs, remote) ==
    refs \cup {d \in remote : \A l \in refs : l.name # d.name}

\* git push --mirror: every local ref is forced onto remote, and every ref of
\* remote the local repository lacks is deleted
push_mirror(refs, remote) ==
    refs \cup {d \in remote : d \in refs}

\* cfg['path'] before the clone
NoRepo == [refs |-> {}, fetch |-> {}]

VARIABLES
    upstream,      \* upstream host: the refs of a repository
    local,         \* cfg['path'] of each repository: [refs, fetch], its refs and
                   \* its remote.origin.fetch
    downstream,    \* downstream host: the refs of each repository
    host,          \* downstream host: the pipelines it holds for a repository
                   \* and the jobs of a pipeline, [pipelines, jobs]
    git_queue,     \* git_queue (server.py:38)
    git_pc,        \* git_task: the await it is suspended at
    git_i,         \* git_task: position of the for loop over config['repos']
    git_cur,       \* git_task: (cfg, _, op), the item its while loop is serving
    git_puts,      \* items put on git_queue so far
    git_runs,      \* git_task: git_pull_push calls made from the while loop
    gitlab_queue,  \* gitlab_queue (server.py:131)
    gl_pc,         \* gitlab_task: the await it is suspended at
    gl_i,          \* gitlab_task: position of the for loop over config['repos']
    gl_cur,        \* gitlab_task: (cfg, t, ev), the item its while loop is serving
    gl_puts,       \* items put on gitlab_queue so far
    gl_runs,       \* gitlab_task: gitlab_update_pipeline calls made
    gl_pls,        \* init_statuses: pipelines of pls still to visit
    gl_n,          \* length of the job list being iterated
    gl_k,          \* index in it of the job being handled
    gl_j,          \* the job handed to commit_status_set
    gl_call,       \* github_commit_status_set call in flight
    gl_seen,       \* jobs handed to commit_status_set by the running call of
                   \* init_statuses / gitlab_update_pipeline
    gl_att,        \* github_commit_status_set calls made by it
    nreq,          \* requests served
    response       \* what the handler of the last request returned or raised

ref_vars == <<upstream, local, downstream>>
mirror_vars == <<git_queue, git_puts, git_pc, git_i, git_cur, git_runs, ref_vars>>
status_vars == <<gitlab_queue, gl_puts, gl_pc, gl_i, gl_cur, gl_runs, gl_pls, gl_n, gl_k,
                 gl_j, gl_call, gl_seen, gl_att>>
request_vars == <<nreq, response>>
vars == <<host, mirror_vars, status_vars, request_vars>>

\* ------------------------------------------------------------ asyncio.Queue
\* a put that jumps the queue
put_front(q, item) == <<item>> \o q

\* Queue.put on an unbounded queue: append at the tail
put(q, item) == Append(q, item)

\* a get that takes the newest item
get_last(q) == q[Len(q)]

\* Queue.get: the item at the head ...
get(q) == Head(q)

\* a get that empties the queue
rest_none(q) == <<>>

\* ... which leaves the queue
rest(q) == Tail(q)

\* ------------------------------------------------------------ status mapper
\* no gh_status: the chain's else branch, which returns without posting
Dropped == "<dropped>"

\* a chain whose else branch posts a pending status
gh_status_lenient(status) ==
    IF status = "success" THEN "success"
    ELSE IF status = "failed" THEN "failure"
    ELSE "pending"

\* a chain that passes the GitLab status on untranslated
gh_status_raw(status) ==
    IF status \in {"success", "pending", "created", "running", "failed"}
    THEN status
    ELSE Dropped

\* commit_status_set, the if/elif chain: the GitHub state of a GitLab status
gh_status(status) ==
    IF status = "success" THEN "success"
    ELSE IF status = "pending" \/ status = "created" \/ status = "running"
         THEN "pending"
    ELSE IF status = "failed" THEN "failure"
    ELSE Dropped

\* a lookup without the default: a job the override lacks has no description
description_no_fallback(cfg, test) ==
    IF ~HasJobDescriptions(cfg) THEN "Gitlab " \o test
    ELSE IF test \in DOMAIN JobDescriptions(cfg) THEN JobDescriptions(cfg)[test]
    ELSE "<KeyError>"

\* commit_status_set, the description: the override with the default as fallback
description(cfg, test) ==
    IF HasJobDescriptions(cfg) /\ test \in DOMAIN JobDescriptions(cfg)
    THEN JobDescriptions(cfg)[test]
    ELSE "Gitlab " \o test

\* the arguments commit_status_set passes to github_commit_status_set
StatusCall(cfg, commit, test, status) ==
    [cfg |-> cfg, commit |-> commit, context |-> "gitlab/" \o test,
     state |-> gh_status(status), description |-> description(cfg, test)]

\* ------------------------------------------------------------------ Init
\* a request that leaves per_page out
ListAllPipelines == host.pipelines

\* the pipelines a repository's page of recent pipelines holds
ListRecentPipelines ==
    IF host.pipelines < PerPage THEN host.pipelines ELSE PerPage

InitTasks ==
    /\ git_queue = <<>>
    /\ git_puts = 0
    /\ git_pc = "clone"
    /\ git_i = 1
    /\ git_cur = NoItem
    /\ git_runs = 0
    /\ local = [r \in ConfigRepos |-> NoRepo]
    /\ gitlab_queue = <<>>
    /\ gl_puts = 0
    /\ gl_pc = "list_pipelines"
    /\ gl_i = 1
    /\ gl_cur = NoItem
    /\ gl_runs = 0
    /\ gl_pls = 0
    /\ gl_n = 0
    /\ gl_k = 0
    /\ gl_j = NoJob
    /\ gl_call = NoCall
    /\ gl_seen = 0
    /\ gl_att = 0
    /\ nreq = 0
    /\ response = [result |-> "<none>", ev |-> Unread]

\* a repository with a branch and an open pull request
UpstreamRefs ==
    {[name |-> Main, commit |-> "c1"], [name |-> PullHead, commit |-> "c2"]}

\* At startup the downstream host holds MaxHostPipelines pipelines of one job
\* for a repository; SpecBackfill below starts from larger hosts.
Init ==
    /\ host = [pipelines |-> MaxHostPipelines, jobs |-> 1]
    /\ upstream = UpstreamRefs
    /\ downstream = [r \in ConfigRepos |-> {}]
    /\ InitTasks

\* ---------------------------------------------------------------- git_task
\* the repositories whose init_git has returned
git_ready == {RepoOrder[i] : i \in 1..(git_i - 1)}

\* the repository git_task is working for
git_cfg == IF git_i <= NRepos THEN RepoOrder[git_i] ELSE git_cur.cfg

\* a task that logs the failure and goes back to its queue
git_raise_skip ==
    /\ git_pc' = "get"
    /\ UNCHANGED <<git_queue, git_puts, git_i, git_cur, git_runs>>

\* run: a non-zero return code raises, and nothing in git_task catches it
git_raise ==
    /\ git_pc' = "dead"
    /\ UNCHANGED <<git_queue, git_puts, git_i, git_cur, git_runs>>

\* a for loop that leaves after its first repository
git_loop_first_only(i) == "get"

\* git_task, after init_git(cfg) has returned: the next repository of the for
\* loop, or the while loop once the for loop is exhausted
git_loop_next(i) == IF i <= NRepos THEN "clone" ELSE "get"

\* init_git: git clone --bare --mirror github_url(cfg) cfg['path']
init_git_clone ==
    /\ git_pc = "clone"
    /\ \E ok \in BOOLEAN :
         IF ok
         THEN /\ git_pc' = "config_refs"
              /\ local' = [local EXCEPT ![git_cfg] = clone_mirror(upstream)]
              /\ UNCHANGED <<git_queue, git_puts, git_i, git_cur, git_runs>>
         ELSE /\ git_raise
              /\ UNCHANGED local
    /\ UNCHANGED <<upstream, downstream>>
    /\ UNCHANGED <<host, status_vars, request_vars>>

\* the refspec a git config --add remote.origin.fetch of init_git registers
init_git_refspec(pc) == IF pc = "config_refs" THEN FetchAll ELSE FetchPulls

\* init_git: the two git config --add remote.origin.fetch
init_git_config ==
    /\ git_pc \in {"config_refs", "config_pull"}
    /\ \E ok \in BOOLEAN :
         IF ok
         THEN /\ git_pc' = IF git_pc = "config_refs" THEN "config_pull"
                           ELSE "remote_update"
              /\ local' = [local EXCEPT ![git_cfg].fetch =
                                           @ \cup {init_git_refspec(git_pc)}]
              /\ UNCHANGED <<git_queue, git_puts, git_i, git_cur, git_runs>>
         ELSE /\ git_raise
              /\ UNCHANGED local
    /\ UNCHANGED <<upstream, downstream>>
    /\ UNCHANGED <<host, status_vars, request_vars>>

\* a git_pull_push that pushes before it fetches
pull_push_push_first(pc) ==
    IF pc = "remote_update" THEN "push_mirror" ELSE "show_ref"

\* git_pull_push: the command that follows one that succeeded
pull_push_next(pc) ==
    IF pc = "remote_update" THEN "show_ref" ELSE "push_mirror"

\* what git remote update -p makes of the local refs
git_fetched == fetch(local[git_cfg].fetch, upstream, local[git_cfg].refs)

\* what git push --mirror makes of the downstream refs
git_pushed == push_mirror(local[git_cfg].refs, downstream[git_cfg])

\* the return codes a command of git_pull_push can end with (TRUE is 0): git
\* show-ref ends with 1 in a repository that has no ref
git_returns(pc) ==
    IF pc = "show_ref" /\ local[git_cfg].refs = {} THEN {FALSE} ELSE BOOLEAN

\* git_pull_push: git remote update -p, git show-ref, git push --mirror; its
\* return goes back to init_git's caller or to the while loop. The refs are
\* followed for the commands that succeed.
git_pull_push ==
    /\ git_pc \in {"remote_update", "show_ref", "push_mirror"}
    /\ \E ok \in git_returns(git_pc) :
         IF ~ok
         THEN /\ git_raise
              /\ UNCHANGED <<local, downstream>>
         ELSE IF git_pc \in {"remote_update", "show_ref"}
         THEN /\ git_pc' = pull_push_next(git_pc)
              /\ local' = IF git_pc = "remote_update"
                          THEN [local EXCEPT ![git_cfg].refs = git_fetched]
                          ELSE local
              /\ UNCHANGED <<git_queue, git_puts, git_i, git_cur, git_runs, downstream>>
         ELSE /\ downstream' = [downstream EXCEPT ![git_cfg] = git_pushed]
              /\ UNCHANGED local
              /\ IF git_i <= NRepos
                 THEN /\ git_i' = git_i + 1
                      /\ git_pc' = git_loop_next(git_i + 1)
                      /\ UNCHANGED <<git_queue, git_puts, git_cur, git_runs>>
                 ELSE /\ git_pc' = "get"
                      /\ git_cur' = NoItem
                      /\ UNCHANGED <<git_queue, git_puts, git_i, git_runs>>
    /\ UNCHANGED upstream
    /\ UNCHANGED <<host, status_vars, request_vars>>

\* git_task, the while loop: await git_queue.get(), then git_pull_push(cfg)
git_task_get ==
    /\ git_pc = "get"
    /\ git_queue # <<>>
    /\ git_cur' = get(git_queue)
    /\ git_queue' = rest(git_queue)
    /\ git_runs' = git_runs + 1
    /\ git_pc' = "remote_update"
    /\ UNCHANGED <<git_i, git_puts, ref_vars>>
    /\ UNCHANGED <<host, status_vars, request_vars>>

\* ------------------------------------------------------------- gitlab_task
\* the repositories whose init_statuses has returned
gl_ready == {RepoOrder[i] : i \in 1..(gl_i - 1)}

\* the repository gitlab_task is working for
gl_cfg == IF gl_i <= NRepos THEN RepoOrder[gl_i] ELSE gl_cur.cfg

\* gitlab_get / github_post: a failed call raises, and nothing in gitlab_task
\* catches it
gl_raise ==
    /\ gl_pc' = "dead"
    /\ gl_pls' = 0 /\ gl_n' = 0 /\ gl_k' = 0
    /\ gl_j' = NoJob /\ gl_call' = NoCall
    /\ gl_seen' = 0 /\ gl_att' = 0
    /\ UNCHANGED <<gitlab_queue, gl_puts, gl_i, gl_runs>>

\* a for loop that leaves after its first repository
gl_loop_first_only(i) == "get"

\* gitlab_task, after init_statuses(cfg) has returned
gl_loop_next(i) == IF i <= NRepos THEN "list_pipelines" ELSE "get"

\* the for loop over a job list is exhausted: init_statuses goes on with its
\* next pipeline or returns; gitlab_update_pipeline returns to the while loop
gl_jobs_done ==
    /\ gl_n' = 0 /\ gl_k' = 0
    /\ IF gl_i <= NRepos
       THEN /\ gl_pc' = IF gl_pls > 0 THEN "list_jobs" ELSE "init_ret"
            /\ UNCHANGED <<gl_cur, gl_seen, gl_att>>
       ELSE /\ gl_pc' = "get"
            /\ gl_cur' = NoItem
            /\ gl_seen' = 0 /\ gl_att' = 0

\* a loop that leaves its job list after the first job
gl_next_job_once ==
    /\ gl_j' = NoJob
    /\ gl_call' = NoCall
    /\ gl_jobs_done

\* commit_status_set has returned: the next job of the list, if any
gl_next_job ==
    /\ gl_j' = NoJob
    /\ gl_call' = NoCall
    /\ IF gl_k < gl_n
       THEN /\ gl_k' = gl_k + 1
            /\ gl_pc' = "job"
            /\ UNCHANGED <<gl_n, gl_cur, gl_seen, gl_att>>
       ELSE gl_jobs_done

\* init_statuses: gitlab_get(cfg, 'pipelines', per_page 5)
init_statuses_pipelines ==
    /\ gl_pc = "list_pipelines"
    /\ \E ok \in BOOLEAN :
         IF ok
         THEN /\ gl_pls' = ListRecentPipelines
              /\ gl_pc' = IF ListRecentPipelines > 0 THEN "list_jobs"
                          ELSE "init_ret"
              /\ gl_seen' = 0 /\ gl_att' = 0
              /\ UNCHANGED <<gitlab_queue, gl_puts, gl_i, gl_cur, gl_runs, gl_n, gl_k,
                             gl_j, gl_call>>
         ELSE /\ gl_raise
              /\ UNCHANGED gl_cur
    /\ UNCHANGED <<host, mirror_vars, request_vars>>

\* init_statuses: gitlab_get(cfg, f'pipelines/{plid}/jobs') for the next pipeline
init_statuses_jobs ==
    /\ gl_pc = "list_jobs"
    /\ \E ok \in BOOLEAN :
         IF ok
         THEN /\ gl_pls' = gl_pls - 1
              /\ IF host.jobs > 0
                 THEN /\ gl_n' = host.jobs
                      /\ gl_k' = 1
                      /\ gl_pc' = "job"
                 ELSE /\ gl_n' = 0 /\ gl_k' = 0
                      /\ gl_pc' = IF gl_pls - 1 > 0 THEN "list_jobs"
                                  ELSE "init_ret"
              /\ UNCHANGED <<gitlab_queue, gl_puts, gl_i, gl_cur, gl_runs, gl_j, gl_call,
                             gl_seen, gl_att>>
         ELSE /\ gl_raise
              /\ UNCHANGED gl_cur
    /\ UNCHANGED <<host, mirror_vars, request_vars>>

\* init_statuses returns ('Commit statuses initialized')
init_statuses_return ==
    /\ gl_pc = "init_ret"
    /\ gl_i' = gl_i + 1
    /\ gl_pc' = gl_loop_next(gl_i + 1)
    /\ gl_seen' = 0 /\ gl_att' = 0
    /\ UNCHANGED <<gitlab_queue, gl_puts, gl_cur, gl_runs, gl_pls, gl_n, gl_k, gl_j,
                   gl_call>>
    /\ UNCHANGED <<host, mirror_vars, request_vars>>

\* the commit a job's status is posted to: the event's commit, or the job's own
gl_commit == IF gl_i <= NRepos THEN <<"pipeline", gl_pls + 1>>
             ELSE <<"event", gl_cur.x.id>>

\* commit_status_set(cfg, commit, j['name'], j['status'], url): an unknown
\* status is logged and nothing is posted, any other is posted
commit_status_set ==
    /\ gl_pc = "job"
    /\ \E status \in RawStatuses :
         /\ gl_j' = [name |-> JobName(gl_k), status |-> status]
         /\ gl_seen' = gl_seen + 1
         /\ IF gh_status(status) = Dropped
            THEN /\ gl_pc' = "unknown_status"
                 /\ UNCHANGED <<gl_call, gl_att>>
            ELSE /\ gl_pc' = "post"
                 /\ gl_call' = StatusCall(gl_cfg, gl_commit, JobName(gl_k), status)
                 /\ gl_att' = gl_att + 1
    /\ UNCHANGED <<gitlab_queue, gl_puts, gl_i, gl_cur, gl_runs, gl_pls, gl_n, gl_k>>
    /\ UNCHANGED <<host, mirror_vars, request_vars>>

\* an unknown status that raises instead of returning
commit_status_unknown_raises ==
    /\ gl_pc = "unknown_status"
    /\ gl_raise
    /\ UNCHANGED gl_cur
    /\ UNCHANGED <<host, mirror_vars, request_vars>>

\* commit_status_set returns after 'Unknown status not updating'
commit_status_unknown ==
    /\ gl_pc = "unknown_status"
    /\ gl_next_job
    /\ UNCHANGED <<gitlab_queue, gl_puts, gl_i, gl_runs, gl_pls>>
    /\ UNCHANGED <<host, mirror_vars, request_vars>>

\* github_post: the response to the POST of github_commit_status_set
github_post ==
    /\ gl_pc = "post"
    /\ \E ok \in BOOLEAN :
         IF ok
         THEN /\ gl_next_job
              /\ UNCHANGED <<gitlab_queue, gl_puts, gl_i, gl_runs, gl_pls>>
         ELSE /\ gl_raise
              /\ UNCHANGED gl_cur
    /\ UNCHANGED <<host, mirror_vars, request_vars>>

\* gitlab_task, the while loop: await gitlab_queue.get(), then
\* gitlab_update_pipeline(cfg, ev) for a 'Pipeline Hook', raise for another kind
gitlab_task_get ==
    /\ gl_pc = "get"
    /\ gitlab_queue # <<>>
    /\ gitlab_queue' = rest(gitlab_queue)
    /\ IF get(gitlab_queue).t = "Pipeline Hook"
       THEN /\ gl_runs' = gl_runs + 1
            /\ gl_seen' = 0 /\ gl_att' = 0
            /\ IF get(gitlab_queue).x.builds > 0
               THEN /\ gl_cur' = get(gitlab_queue)
                    /\ gl_n' = get(gitlab_queue).x.builds
                    /\ gl_k' = 1
                    /\ gl_pc' = "job"
               ELSE /\ gl_cur' = NoItem
                    /\ gl_n' = 0 /\ gl_k' = 0
                    /\ gl_pc' = "get"
       ELSE /\ gl_cur' = get(gitlab_queue)
            /\ gl_pc' = "dead"
            /\ UNCHANGED <<gl_runs, gl_seen, gl_att, gl_n, gl_k>>
    /\ UNCHANGED <<gl_puts, gl_i, gl_pls, gl_j, gl_call>>
    /\ UNCHANGED <<host, mirror_vars, request_vars>>

\* ------------------------------------------------------------ the handlers
\* A request is drawn as far as its handler reads it: the repository name; the
\* event header, if the repository is configured; the body, if the header is
\* there. x = await request.json() raises on a body that is not JSON; the body
\* of a pipeline event holds its builds, none or MaxJobs of them.
Malformed == [id |-> 0]

GithubBodies == {Malformed, [id |-> git_puts + 1]}

GitlabBodies ==
    {Malformed} \cup {[id |-> gl_puts + 1, builds |-> n] : n \in {0, MaxJobs}}

Requests(events, bodies) ==
    {<<UnknownRepo, Unread, Unread>>}
    \cup {<<repo, NoHeader, Unread>> : repo \in ConfigRepos}
    \cup (ConfigRepos \X events \X bodies)

\* config['repos'][request.match_info['repo']], request.headers[...] and
\* request.json(), in this order: the first that fails raises
handler_error(repo, ev, x) ==
    IF repo \notin ConfigRepos THEN "KeyError: repo"
    ELSE IF ev = NoHeader THEN "KeyError: header"
    ELSE IF x = Malformed THEN "JSONDecodeError"
    ELSE "OK"

\* what the handler of a request raised, or web.Response(text="OK") with the
\* event kind its print names
handler_response(repo, ev, x) ==
    [result |-> handler_error(repo, ev, x),
     ev |-> IF handler_error(repo, ev, x) = "OK" THEN ev ELSE Unread]

\* a handler that queues whatever kind it is sent
github_puts_any(ev) == TRUE

\* the event kinds the github handler puts an item on git_queue for
github_puts(ev) == ev = "push" \/ ev = "pull_request"

\* an item tagged with the kind of its event
github_item_tagged(repo_cfg, ev, x) == [cfg |-> repo_cfg, t |-> ev, x |-> x]

\* the item it puts: (repo_cfg, 'push', x) for either kind
github_item(repo_cfg, ev, x) ==
    IF ev = "push" THEN [cfg |-> repo_cfg, t |-> "push", x |-> x]
    ELSE [cfg |-> repo_cfg, t |-> "push", x |-> x]

\* a handler that queues whatever kind it is sent
gitlab_puts_any(ev) == TRUE

\* the event kinds the gitlab handler puts an item on gitlab_queue for
gitlab_puts(ev) == ev = "Pipeline Hook"

\* the item it puts: (repo_cfg, ev, x)
gitlab_item(repo_cfg, ev, x) == [cfg |-> repo_cfg, t |-> ev, x |-> x]

\* a handler that puts its item on both queues
github_to_both(repo, ev, x) ==
    /\ nreq < MaxRequests
    /\ nreq' = nreq + 1
    /\ response' = handler_response(repo, ev, x)
    /\ IF handler_error(repo, ev, x) = "OK" /\ github_puts(ev)
       THEN /\ git_queue' = put(git_queue, github_item(repo, ev, x))
            /\ git_puts' = git_puts + 1
            /\ gitlab_queue' = put(gitlab_queue, github_item(repo, ev, x))
       ELSE UNCHANGED <<git_queue, git_puts, gitlab_queue>>
    /\ UNCHANGED <<git_pc, git_i, git_cur, git_runs, ref_vars>>
    /\ UNCHANGED <<host, gl_puts, gl_pc, gl_i, gl_cur, gl_runs, gl_pls, gl_n, gl_k,
                   gl_j, gl_call, gl_seen, gl_att>>

\* POST /{repo}/github
github(repo, ev, x) ==
    /\ nreq < MaxRequests
    /\ nreq' = nreq + 1
    /\ response' = handler_response(repo, ev, x)
    /\ IF handler_error(repo, ev, x) = "OK" /\ github_puts(ev)
       THEN /\ git_queue' = put(git_queue, github_item(repo, ev, x))
            /\ git_puts' = git_puts + 1
       ELSE UNCHANGED <<git_queue, git_puts>>
    /\ UNCHANGED <<git_pc, git_i, git_cur, git_runs, ref_vars>>
    /\ UNCHANGED <<host, status_vars>>

\* POST /{repo}/gitlab
gitlab(repo, ev, x) ==
    /\ nreq < MaxRequests
    /\ nreq' = nreq + 1
    /\ response' = handler_response(repo, ev, x)
    /\ IF handler_error(repo, ev, x) = "OK" /\ gitlab_puts(ev)
       THEN /\ gitlab_queue' = put(gitlab_queue, gitlab_item(repo, ev, x))
            /\ gl_puts' = gl_puts + 1
       ELSE UNCHANGED <<gitlab_queue, gl_puts>>
    /\ UNCHANGED <<gl_pc, gl_i, gl_cur, gl_runs, gl_pls, gl_n, gl_k, gl_j,
                   gl_call, gl_seen, gl_att>>
    /\ UNCHANGED <<host, mirror_vars>>

github_request ==
    \E r \in Requests(GithubEvents, GithubBodies) : github(r[1], r[2], r[3])

gitlab_request ==
    \E r \in Requests(GitlabEvents, GitlabBodies) : gitlab(r[1], r[2], r[3])

\* ------------------------------------------------------------------- Next
git_task == init_git_clone \/ init_git_config \/ git_pull_push \/ git_task_get

gitlab_task ==
    \/ init_statuses_pipelines
    \/ init_statuses_jobs
    \/ init_statuses_return
    \/ commit_status_set
    \/ commit_status_unknown
    \/ github_post
    \/ gitlab_task_get

Next == git_task \/ gitlab_task \/ github_request \/ gitlab_request

Spec == Init /\ [][Next]_vars

\* The status side alone, against a downstream host that holds no pipeline, a
\* full page of pipelines, or one more than a page, each with MaxJobs + 1 jobs.
InitBackfill ==
    /\ host \in [pipelines : {0, PerPage, PerPage + 1}, jobs : {MaxJobs + 1}]
    /\ upstream = UpstreamRefs
    /\ downstream = [r \in ConfigRepos |-> {}]
    /\ InitTasks

NextStatus == gitlab_task \/ gitlab_request

SpecBackfill == InitBackfill /\ [][NextStatus]_vars

\* Runs in which no subprocess and no HTTP call fails and every one of them
\* returns: the event loop resumes a task whose await has completed, which is
\* weak fairness of each task's steps. A request may come at any time or never.
NoFailure == git_pc' # "dead" /\ gl_pc' # "dead"

git_task_ok == git_task /\ NoFailure

gitlab_task_ok == gitlab_task /\ NoFailure

NextLive == git_task_ok \/ gitlab_task_ok \/ github_request \/ gitlab_request

SpecLive ==
    /\ Init
    /\ [][NextLive]_vars
    /\ WF_vars(git_task_ok)
    /\ WF_vars(gitlab_task_ok)

\* The status side alone, from the initial state of Spec.
SpecStatus == Init /\ [][NextStatus]_vars

\* The mirror side alone, for upstream repositories with and without a tag and
\* an open pull request, and downstream repositories that are empty, behind, or
\* hold a branch upstream has deleted.
UpstreamChoices ==
    {{[name |-> Main, commit |-> "c1"]} \cup extra :
        extra \in SUBSET {[name |-> Tag, commit |-> "c1"],
                          [name |-> PullHead, commit |-> "c2"]}}

DownstreamChoices ==
    {{}, {[name |-> Main, commit |-> "c0"]},
     {[name |-> <<"refs", "heads", "old">>, commit |-> "c0"]}}

InitMirror ==
    /\ host = [pipelines |-> 0, jobs |-> 0]
    /\ upstream \in UpstreamChoices
    /\ \E d \in DownstreamChoices : downstream = [r \in ConfigRepos |-> d]
    /\ InitTasks

NextMirror == git_task \/ github_request

SpecMirror == InitMirror /\ [][NextMirror]_vars

\* ============================================================== the claims
\* the awaits of git_pull_push
PullPush == {"remote_update", "show_ref", "push_mirror"}

\* the mirror operations in progress for a repository: 0 is the one that ends
\* its bootstrap, k > 0 the one for the k-th item put on git_queue
MirrorOps(r) ==
    (IF git_pc \in PullPush /\ git_i <= NRepos /\ RepoOrder[git_i] = r
     THEN {0} ELSE {})
    \cup (IF git_pc \in PullPush /\ git_cur # NoItem /\ git_cur.cfg = r
          THEN {git_cur.x.id} ELSE {})

\* the items of a queue are in the order they were put
InPutOrder(q) == \A i, j \in DOMAIN q : i < j => q[i].x.id < q[j].x.id

\* every item of a queue for the repository of item cur was put after cur
AllLater(q, cur) ==
    \A i \in DOMAIN q : q[i].cfg = cur.cfg => q[i].x.id > cur.x.id

\* the items a step takes off a queue
Taken(q, qnext) ==
    {q[i] : i \in DOMAIN q} \ {qnext[i] : i \in DOMAIN qnext}

\* C1: the mirror tasks of a repository run one at a time, in the order they
\* were put on the queue: at most one mirror operation (the bootstrap one
\* included) is in progress for a repository; the k-th item put is the k-th
\* served; while an item is served every item of its repository still queued
\* was put after it; and every item that left the queue was served.
C1_MirrorOneAtATimeInOrder ==
    /\ \A r \in ConfigRepos : Cardinality(MirrorOps(r)) <= 1
    /\ InPutOrder(git_queue)
    /\ git_cur # NoItem => git_cur.x.id = git_runs /\ AllLater(git_queue, git_cur)
    /\ git_runs + Len(git_queue) = git_puts

\* a mirror task is being served while a later one of its repository waits
C1_Witness ==
    /\ git_pc \in PullPush
    /\ git_cur # NoItem
    /\ \E i \in DOMAIN git_queue : git_queue[i].cfg = git_cur.cfg

\* C2: the status events of a repository are applied in the order received,
\* none merged: the queue keeps the put order; the k-th event put is the
\* k-th handed to gitlab_update_pipeline, one call per event; while it is
\* served every event of its repository still queued was put after it; and a
\* status post in flight belongs to the event taken last.
C2_StatusInOrderNoCoalescing ==
    /\ InPutOrder(gitlab_queue)
    /\ gl_cur # NoItem => gl_cur.x.id = gl_runs /\ AllLater(gitlab_queue, gl_cur)
    /\ gl_runs + Len(gitlab_queue) = gl_puts
    /\ (gl_call # NoCall /\ gl_i > NRepos) =>
          /\ gl_cur # NoItem
          /\ gl_call.commit = <<"event", gl_runs>>
          /\ gl_call.cfg = gl_cur.cfg

\* a status post of an event is in flight while a later event of its
\* repository waits
C2_Witness ==
    /\ gl_pc = "post"
    /\ gl_i > NRepos
    /\ \E i \in DOMAIN gitlab_queue : gitlab_queue[i].cfg = gl_cur.cfg

\* C3: no step of either task takes an item off its queue, or serves one,
\* before the bootstrap of the item's repository (init_git, init_statuses) has
\* returned.
C3_BootstrapBeforeDrain ==
    [][ /\ \A item \in Taken(git_queue, git_queue') : item.cfg \in git_ready
        /\ \A item \in Taken(gitlab_queue, gitlab_queue') : item.cfg \in gl_ready
        /\ git_cur' # NoItem => git_cur'.cfg \in git_ready'
        /\ gl_cur' # NoItem => gl_cur'.cfg \in gl_ready' ]_vars

\* an event of the second repository waits on each queue while the first
\* repository is bootstrapped and the second is not
C3_Witness ==
    /\ git_i = NRepos /\ git_pc # "dead"
    /\ \E i \in DOMAIN git_queue : git_queue[i].cfg = RepoOrder[NRepos]
    /\ gl_i = NRepos /\ gl_pc # "dead"
    /\ \E i \in DOMAIN gitlab_queue : gitlab_queue[i].cfg = RepoOrder[NRepos]

\* C4: a failure while a task works for repository A does not stop the
\* processing of repository B's events: a task with an event of B on its
\* queue has not ended, unless it failed working for B itself.
C4_Isolation ==
    \A b \in ConfigRepos :
        /\ (git_pc = "dead" /\ \E i \in DOMAIN git_queue : git_queue[i].cfg = b)
              => git_cfg = b
        /\ (gl_pc = "dead" /\ \E i \in DOMAIN gitlab_queue : gitlab_queue[i].cfg = b)
              => gl_cfg = b

\* the statuses the claims list as recognized
Recognized == {"success", "pending", "created", "running", "failed"}

\* C5: while a status event taken from the queue is processed, each job of it
\* is handed to commit_status_set once and leads to at most one
\* github_commit_status_set call, to none when its status is not recognized:
\* the calls made for the event never exceed the jobs handed over, and these
\* never exceed the event's jobs.
C5_AtMostOneUpdatePerJob ==
    (gl_i > NRepos /\ gl_cur # NoItem /\ gl_pc # "dead") =>
        /\ gl_att <= gl_seen
        /\ gl_seen <= gl_cur.x.builds
        /\ gl_j # NoJob =>
              /\ gl_seen = gl_k
              /\ gl_j.name = JobName(gl_k)
              /\ gl_j.status \notin Recognized => gl_call = NoCall
        /\ gl_call # NoCall =>
              /\ gl_j # NoJob
              /\ gl_j.status \in Recognized
              /\ gl_call.context = "gitlab/" \o gl_j.name

\* a job of a queued event is dropped for its status after an earlier job of
\* the same event was posted
C5_Witness ==
    /\ gl_i > NRepos
    /\ gl_pc = "unknown_status"
    /\ gl_j.status \notin Recognized
    /\ gl_att = 1
    /\ gl_seen = 2

\* the mapping the claims give: success to success; pending, created and
\* running to pending; failed to failure; anything else is dropped
Expected(status) ==
    CASE status = "success" -> "success"
      [] status = "pending" -> "pending"
      [] status = "created" -> "pending"
      [] status = "running" -> "pending"
      [] status = "failed"  -> "failure"
      [] OTHER -> "<dropped>"

\* C6: for every job handed to commit_status_set, during backfill or from the
\* queue, the status posted is the one the mapping gives for the job's status,
\* and nothing is posted when the mapping drops it; every status posted is one
\* of success, pending, failure.
C6_StatusMapper ==
    /\ gl_j # NoJob =>
          IF Expected(gl_j.status) = "<dropped>"
          THEN gl_call = NoCall /\ gl_pc = "unknown_status"
          ELSE gl_call # NoCall /\ gl_call.state = Expected(gl_j.status)
    /\ gl_call # NoCall => gl_call.state \in {"success", "pending", "failure"}

\* a failed job is being posted as failure
C6_Witness ==
    /\ gl_pc = "post"
    /\ gl_j.status = "failed"
    /\ gl_call.state = "failure"

\* the task variables a handler leaves alone
task_vars == <<git_pc, git_i, git_cur, git_runs, gl_pc, gl_i, gl_cur, gl_runs,
               gl_pls, gl_n, gl_k, gl_j, gl_call, gl_seen, gl_att>>

\* C7: for a configured repository, a pull_request event and a push event each
\* put exactly one item on git_queue, the same item, (repo_cfg, 'push', x), and
\* leave gitlab_queue as it is.
C7_PullRequestLikePush ==
    [][ \A repo \in ConfigRepos, ev \in {"push", "pull_request"},
           x \in GithubBodies \ {Malformed} :
          github(repo, ev, x) =>
              /\ git_queue' = Append(git_queue, [cfg |-> repo, t |-> "push", x |-> x])
              /\ gitlab_queue' = gitlab_queue ]_vars

\* a pull_request event was answered OK and its item, tagged push, is the newest
\* of git_queue
C7_Witness ==
    /\ response = [result |-> "OK", ev |-> "pull_request"]
    /\ git_queue # <<>>
    /\ git_queue[Len(git_queue)].t = "push"
    /\ git_queue[Len(git_queue)].x.id = git_puts
    /\ gitlab_queue = <<>>

\* C8: a request whose event kind its handler does not name (github: other than
\* push and pull_request; gitlab: other than Pipeline Hook) changes neither
\* queue and neither task, and is answered OK when its repository is
\* configured and its body is JSON.
C8_UnknownKindIgnored ==
    [][ /\ \A repo \in RequestRepos, ev \in GithubEvents \ {"push", "pull_request"},
              x \in GithubBodies :
             github(repo, ev, x) =>
                 /\ UNCHANGED <<git_queue, gitlab_queue, task_vars>>
                 /\ (repo \in ConfigRepos /\ x # Malformed) => response'.result = "OK"
        /\ \A repo \in RequestRepos, ev \in GitlabEvents \ {"Pipeline Hook"},
              x \in GitlabBodies :
             gitlab(repo, ev, x) =>
                 /\ UNCHANGED <<git_queue, gitlab_queue, task_vars>>
                 /\ (repo \in ConfigRepos /\ x # Malformed) => response'.result = "OK"
      ]_vars

\* an event of a kind no handler names was answered OK, both queues are empty,
\* nothing was ever put on them, and both tasks run
C8_Witness ==
    /\ response.result = "OK"
    /\ response.ev \in {"ping", "Job Hook"}
    /\ git_puts = 0 /\ gl_puts = 0
    /\ git_queue = <<>> /\ gitlab_queue = <<>>
    /\ git_pc # "dead" /\ gl_pc # "dead"

C10_BackfillBoundedAndFirst ==
    /\ ListRecentPipelines <= 5
    /\ (gl_i <= NRepos /\ gl_pc # "dead") =>
          /\ gl_pls <= 5
          /\ gl_att <= gl_seen
          /\ gl_seen <= (ListRecentPipelines - gl_pls) * host.jobs
          /\ host.jobs = 3 => gl_att <= 15
          /\ (gl_j # NoJob /\ gl_j.status \notin Recognized) => gl_call = NoCall
          /\ gl_call # NoCall => gl_call.commit[1] = "pipeline"
    /\ gl_i <= NRepos => gl_runs = 0 /\ gl_cur = NoItem
    /\ (gl_call # NoCall /\ gl_call.commit[1] = "pipeline") => gl_runs = 0
    /\ gl_cur # NoItem => gl_cur.cfg \in gl_ready

\* the backfill of a repository with 5 pipelines of 3 jobs has made 15 calls
\* and is about to return, while an event of that repository waits
C10_Witness ==
    /\ gl_pc = "init_ret"
    /\ host.jobs = 3
    /\ gl_seen = 15
    /\ gl_att = 15
    /\ \E i \in DOMAIN gitlab_queue : gitlab_queue[i].cfg = gl_cfg

\* a mirror step of the while loop (an item is taken or served)
LiveMirrorStep == git_i > NRepos /\ git_pc # "dead"

\* C11 as stated: once a repository's first fetch-all/push-mirror is done, its
\* local and its downstream ref sets equal upstream's, and serving a mirror
\* task after that changes no ref.
C11_RefsEqualUpstream ==
    [][ /\ \A r \in git_ready' :
              local'[r].refs = upstream' /\ downstream'[r] = upstream'
        /\ LiveMirrorStep => local' = local /\ downstream' = downstream ]_vars

\* what the claims' mirror holds for an upstream ref set: every ref of
\* upstream, and each refs/pull/X of it once more as the branch refs/heads/pull/X
Mirrored(refs) ==
    refs \cup {[name |-> <<"refs", "heads", "pull">> \o SubSeq(x.name, 3, Len(x.name)),
                commit |-> x.commit] :
                  x \in {y \in refs : y.name[2] = "pull"}}

\* C11: once a repository's first fetch-all/push-mirror is done, its local and
\* its downstream ref sets hold upstream's refs and a refs/heads/pull/* copy of
\* each refs/pull/* ref of upstream, and nothing else; serving a mirror task
\* after that, against the unchanged upstream, changes no ref of either.
C11_MirrorIdempotent ==
    [][ /\ \A r \in git_ready' :
              /\ local'[r].refs = Mirrored(upstream')
              /\ downstream'[r] = Mirrored(upstream')
        /\ LiveMirrorStep => local' = local /\ downstream' = downstream ]_vars

\* the second mirror task served since startup has fetched and is about to
\* push, upstream has an open pull request, and the downstream repository shows
\* it as a branch
C11_Witness ==
    /\ git_runs = 2
    /\ git_pc = "push_mirror"
    /\ \E x \in upstream : x.name = PullHead
    /\ \E d \in downstream[git_cur.cfg] : d.name = <<"refs", "heads", "pull", "1", "head">>

\* gitlab_task is in its while loop
LiveStatus == gl_i > NRepos /\ gl_pc # "dead"

\* C12: a job status the mapping drops raises nothing and stalls nothing:
\* commit_status_set can return, and its return does not end gitlab_task, takes
\* nothing off gitlab_queue, and goes on with the next job of the same list if
\* there is one, otherwise back to the loop the list was iterated from (the
\* while loop's get for an event); and gitlab_task waiting at get with an
\* event queued can take it.
C12_UnknownStatusNoStall ==
    [][ /\ gl_pc = "unknown_status" =>
              /\ ENABLED commit_status_unknown
              /\ gl_call = NoCall
              /\ gl_pc' # "dead"
              /\ Len(gitlab_queue') >= Len(gitlab_queue)
              /\ gl_pc' # gl_pc =>
                    IF gl_k < gl_n
                    THEN gl_pc' = "job" /\ gl_k' = gl_k + 1 /\ gl_cur' = gl_cur
                    ELSE IF gl_i > NRepos THEN gl_pc' = "get"
                    ELSE gl_pc' \in {"list_jobs", "init_ret"}
        /\ (gl_pc = "get" /\ gitlab_queue # <<>>) => ENABLED gitlab_task_get
      ]_vars

\* the first job of an event was dropped, nothing was posted for it, the second
\* job is being handed to commit_status_set, and a later event waits
C12_Witness ==
    /\ LiveStatus
    /\ gl_pc = "job"
    /\ gl_k = 2
    /\ gl_seen = 1
    /\ gl_att = 0
    /\ gitlab_queue # <<>>

\* C13: every call made carries as description the override of the job's name
\* when the repository has one for it (repository A: unit-tests is Unit Tests)
\* and 'Gitlab <job-name>' when the repository has an override mapping without
\* that job (A, any other job) or no override mapping (B); job unit-tests of A
\* with status running is posted as pending with description Unit Tests; and a
\* job with a recognized status always gets its call.
C13_DescriptionLookup ==
    /\ gl_call # NoCall =>
          /\ gl_call.context = "gitlab/" \o gl_j.name
          /\ gl_call.description =
                IF gl_call.cfg = "A" /\ gl_j.name = "unit-tests" THEN "Unit Tests"
                ELSE "Gitlab " \o gl_j.name
          /\ (gl_call.cfg = "A" /\ gl_j.name = "unit-tests" /\ gl_j.status = "running")
                => gl_call.state = "pending" /\ gl_call.description = "Unit Tests"
    /\ (gl_j # NoJob /\ gl_j.status \in Recognized) =>
          gl_call # NoCall /\ gl_pc = "post"

\* an event of repository A: job unit-tests, running, is being posted as
\* pending, Unit Tests
C13_Witness ==
    /\ LiveStatus
    /\ gl_pc = "post"
    /\ gl_cur.cfg = "A"
    /\ gl_j = [name |-> "unit-tests", status |-> "running"]
    /\ gl_call.state = "pending"
    /\ gl_call.description = "Unit Tests"

\* C15: while gitlab_task serves an event, the jobs of event['builds'] are
\* handed to commit_status_set one after the other in the order of the list, a
\* call in flight is the one for the job at hand and for the event's commit, no
\* item leaves gitlab_queue unless gitlab_task is at get with no event at hand,
\* and the event is left only after its last job.
C15_JobsInOrderBeforeNextEvent ==
    [][ /\ (LiveStatus /\ gl_cur # NoItem) =>
              /\ gl_n = gl_cur.x.builds
              /\ gl_k \in 1..gl_n
              /\ gl_seen = IF gl_pc = "job" THEN gl_k - 1 ELSE gl_k
              /\ gl_call # NoCall =>
                    /\ gl_call.commit = <<"event", gl_cur.x.id>>
                    /\ gl_call.context = "gitlab/" \o JobName(gl_k)
              /\ (gl_k' # gl_k /\ gl_cur' = gl_cur /\ gl_pc' # "dead") =>
                    gl_k' = gl_k + 1 /\ gl_pc \in {"post", "unknown_status"}
              /\ gl_cur' # gl_cur => gl_k = gl_n /\ gl_pc' = "get"
        /\ Len(gitlab_queue') < Len(gitlab_queue) =>
              /\ gl_pc = "get"
              /\ gl_cur = NoItem
              /\ gl_call = NoCall
              /\ gitlab_queue' = Tail(gitlab_queue)
      ]_vars

\* the second job of an event is being posted after the first was, while the
\* next event waits on the queue
C15_Witness ==
    /\ LiveStatus
    /\ gl_pc = "post"
    /\ gl_k = 2
    /\ gl_att = 2
    /\ gitlab_queue # <<>>

\* q is an initial part of qnext
IsPrefix(q, qnext) ==
    Len(q) <= Len(qnext) /\ SubSeq(qnext, 1, Len(q)) = q

\* where git_task is after the command it awaits at pc has returned 0
GitNext(pc) ==
    CASE pc = "clone" -> {"config_refs"}
      [] pc = "config_refs" -> {"config_pull"}
      [] pc = "config_pull" -> {"remote_update"}
      [] pc = "remote_update" -> {"show_ref"}
      [] pc = "show_ref" -> {"push_mirror"}
      [] pc = "push_mirror" -> {"clone", "get"}
      [] pc = "get" -> {"remote_update"}
      [] OTHER -> {}

\* where gitlab_task is after the call it awaits at pc has succeeded
GitlabNext(pc) ==
    CASE pc = "list_pipelines" -> {"list_jobs", "init_ret"}
      [] pc = "list_jobs" -> {"job", "list_jobs", "init_ret"}
      [] pc = "init_ret" -> {"list_pipelines", "get"}
      [] pc = "job" -> {"post", "unknown_status"}
      [] pc = "unknown_status" -> {"job", "list_jobs", "init_ret", "get"}
      [] pc = "post" -> {"job", "list_jobs", "init_ret", "get"}
      [] pc = "get" -> {"job", "get"}
      [] OTHER -> {}

\* C14: a step of a task either continues it as after a success or ends it
\* (the failure); the step that ends it takes nothing off its queue; once
\* ended, a task stays ended: it takes no item, serves none (the failing item
\* is not served again), bootstraps no repository, touches no ref and makes no
\* call, and its queue only grows at the tail; and a push or Pipeline Hook
\* request for a configured repository is still answered OK and put on the
\* queue of the ended task.
C14_FailureEndsWorker ==
    [][ /\ git_pc' # git_pc => git_pc' \in GitNext(git_pc) \cup {"dead"}
        /\ gl_pc' # gl_pc => gl_pc' \in GitlabNext(gl_pc) \cup {"dead"}
        /\ (git_pc # "dead" /\ git_pc' = "dead") =>
              UNCHANGED <<git_queue, git_runs, git_cur, git_i>>
        /\ (gl_pc # "dead" /\ gl_pc' = "dead") =>
              UNCHANGED <<gitlab_queue, gl_runs, gl_cur, gl_i>>
        /\ git_pc = "dead" =>
              /\ UNCHANGED <<git_pc, git_runs, git_cur, git_i, local, downstream>>
              /\ IsPrefix(git_queue, git_queue')
        /\ gl_pc = "dead" =>
              /\ UNCHANGED <<gl_pc, gl_runs, gl_cur, gl_i, gl_call, gl_att, gl_seen>>
              /\ gl_call = NoCall
              /\ IsPrefix(gitlab_queue, gitlab_queue')
        /\ \A r \in ConfigRepos :
              /\ \A x \in GithubBodies \ {Malformed} :
                    (git_pc = "dead" /\ github(r, "push", x)) =>
                        /\ response'.result = "OK"
                        /\ Len(git_queue') = Len(git_queue) + 1
              /\ \A x \in GitlabBodies \ {Malformed} :
                    (gl_pc = "dead" /\ gitlab(r, "Pipeline Hook", x)) =>
                        /\ response'.result = "OK"
                        /\ Len(gitlab_queue') = Len(gitlab_queue) + 1
      ]_vars

\* git_task ended while it served the first item, which is still the one at
\* hand and was served once, and the second item put waits on the queue
C14_Witness ==
    /\ git_pc = "dead"
    /\ git_cur # NoItem
    /\ git_runs = 1
    /\ git_puts = 2
    /\ Len(git_queue) = 1

\* C16: the refs of a downstream repository change only by the push --mirror
\* that git_task awaits, which it reaches only from a show-ref that returned 0,
\* which it reaches only from a remote update that returned 0 and has brought
\* the local refs up to upstream's; and git_pull_push runs, in bootstrap as for
\* a queued item, only on a repository that was cloned and has both fetch
\* refspecs registered. A command that fails is followed by no other.
C16_FetchBeforePush ==
    [][ /\ downstream' # downstream =>
              /\ git_pc = "push_mirror"
              /\ git_pc' # "dead"
              /\ downstream' = [downstream EXCEPT ![git_cfg] = local[git_cfg].refs]
        /\ (git_pc' = "push_mirror" /\ git_pc # "push_mirror") => git_pc = "show_ref"
        /\ (git_pc' = "show_ref" /\ git_pc # "show_ref") => git_pc = "remote_update"
        /\ (git_pc' = "remote_update" /\ git_pc # "remote_update") =>
              git_pc \in {"config_pull", "get"}
        /\ git_pc \in PullPush =>
              /\ local[git_cfg] # NoRepo
              /\ local[git_cfg].fetch = {FetchAll, FetchPulls}
        /\ git_pc \in {"show_ref", "push_mirror"} =>
              local[git_cfg].refs = Mirrored(upstream)
        /\ git_pc = "dead" => git_pc' = "dead" /\ local' = local /\ downstream' = downstream
      ]_vars

\* the bootstrap of a repository has fetched, with both refspecs, and is about
\* to push to a downstream repository that does not yet hold the refs
C16_Witness ==
    /\ git_i <= NRepos
    /\ git_pc = "push_mirror"
    /\ local[git_cfg].refs = Mirrored(upstream)
    /\ downstream[git_cfg] # local[git_cfg].refs

\* C17: no step changes the mirror side (git_queue, git_task, the
\* repositories) and the status side (gitlab_queue, gitlab_task) together, so
\* a request changes one queue at most and a step or the end of one task leaves
\* the other task and its queue as they are; and whatever the other task is at
\* (its bootstrap, an item, or ended), a task that awaits a command or a call
\* can go on and a task at get with an item queued can take it.
C17_QueuesIndependent ==
    [][ /\ mirror_vars' = mirror_vars \/ status_vars' = status_vars
        /\ nreq' # nreq =>
              /\ git_queue' = git_queue \/ gitlab_queue' = gitlab_queue
              /\ task_vars' = task_vars
        /\ git_pc \notin {"get", "dead"} => ENABLED git_task
        /\ (git_pc = "get" /\ git_queue # <<>>) => ENABLED git_task_get
        /\ gl_pc \notin {"get", "dead"} => ENABLED gitlab_task
        /\ (gl_pc = "get" /\ gitlab_queue # <<>>) => ENABLED gitlab_task_get
      ]_vars

\* git_task ended in its bootstrap, and gitlab_task is posting a status for an
\* event it took from its queue
C17_Witness ==
    /\ git_pc = "dead"
    /\ git_i <= NRepos
    /\ gl_pc = "post"
    /\ gl_runs = 1
    /\ gl_cur # NoItem

\* C18: every item on gitlab_queue, and the item gitlab_task has taken, has
\* the kind 'Pipeline Hook', so gitlab_task never raises 'Unknown event type';
\* every item on git_queue, and the item git_task has taken, is tagged 'push'.
C18_ItemKinds ==
    /\ \A i \in DOMAIN gitlab_queue : gitlab_queue[i].t = "Pipeline Hook"
    /\ gl_cur # NoItem => gl_cur.t = "Pipeline Hook"
    /\ \A i \in DOMAIN git_queue : git_queue[i].t = "push"
    /\ git_cur # NoItem => git_cur.t = "push"

\* a pull_request event was answered OK and its item waits on git_queue, while
\* a pipeline event waits on gitlab_queue
C18_Witness ==
    /\ response = [result |-> "OK", ev |-> "pull_request"]
    /\ git_queue # <<>>
    /\ gitlab_queue # <<>>

\* the repositories after position i of the configuration
Later(i) == {RepoOrder[k] : k \in (i + 1)..NRepos}

\* C20: each task bootstraps the repositories one at a time in the order of
\* the configuration (a step of the bootstrap touches the repository at the
\* loop's position only, and the position moves on by one), and takes nothing
\* off its queue and serves no item until the bootstrap of every repository has
\* returned; while git_task bootstraps a repository the later ones are not even
\* cloned; and a task that ended in the bootstrap of a repository never gets to
\* the later ones and never takes an item.
C20_GlobalGating ==
    [][ /\ git_i <= NRepos =>
              /\ git_runs = 0 /\ git_cur = NoItem
              /\ \A r \in Later(git_i) : local[r] = NoRepo /\ local'[r] = NoRepo
              /\ \A r \in ConfigRepos \ {RepoOrder[git_i]} :
                    local'[r] = local[r] /\ downstream'[r] = downstream[r]
              /\ git_queue' = git_queue \/ IsPrefix(git_queue, git_queue')
        /\ gl_i <= NRepos =>
              /\ gl_runs = 0 /\ gl_cur = NoItem
              /\ gl_call # NoCall => gl_call.cfg = RepoOrder[gl_i]
              /\ gitlab_queue' = gitlab_queue \/ IsPrefix(gitlab_queue, gitlab_queue')
        /\ git_i' \in {git_i, git_i + 1}
        /\ gl_i' \in {gl_i, gl_i + 1}
        /\ Len(git_queue') < Len(git_queue) => git_ready = ConfigRepos
        /\ Len(gitlab_queue') < Len(gitlab_queue) => gl_ready = ConfigRepos
        /\ git_pc = "dead" => git_i' = git_i /\ git_runs' = git_runs
        /\ gl_pc = "dead" => gl_i' = gl_i /\ gl_runs' = gl_runs
      ]_vars

\* both tasks ended in the bootstrap of the first repository: the second is
\* not cloned, and an event of it waits on each queue
C20_Witness ==
    /\ git_pc = "dead" /\ git_i = 1
    /\ local[RepoOrder[NRepos]] = NoRepo
    /\ \E i \in DOMAIN git_queue : git_queue[i].cfg = RepoOrder[NRepos]
    /\ gl_pc = "dead" /\ gl_i = 1
    /\ \E i \in DOMAIN gitlab_queue : gitlab_queue[i].cfg = RepoOrder[NRepos]

\* the items of a queue whose processing has completed
GitDone == IF git_cur # NoItem THEN git_runs - 1 ELSE git_runs
GitlabDone == IF gl_cur # NoItem THEN gl_runs - 1 ELSE gl_runs

\* C19: when no command and no call fails, always the items are taken in put
\* order, one at a time, each once (the items taken and the items queued are
\* the items put, the k-th taken is the k-th put); and again and again every
\* item put so far, at any time from startup on, has been processed to its
\* end: the count of completed items never exceeds and never decreases below
\* an earlier count of puts, so each item put is eventually completed.
C19_EveryEventProcessedOnce ==
    /\ [](/\ InPutOrder(git_queue) /\ InPutOrder(gitlab_queue)
          /\ git_runs + Len(git_queue) = git_puts
          /\ gl_runs + Len(gitlab_queue) = gl_puts
          /\ git_cur # NoItem => git_cur.x.id = git_runs
          /\ gl_cur # NoItem => gl_cur.x.id = gl_runs
          /\ \A i \in DOMAIN git_queue : git_queue[i].x.id = git_runs + i
          /\ \A i \in DOMAIN gitlab_queue : gitlab_queue[i].x.id = gl_runs + i)
    /\ []<>(GitDone = git_puts /\ GitlabDone = gl_puts)

\* a mirror event and a pipeline event have both been processed to their end,
\* and both tasks wait at get with empty queues
C19_Witness ==
    /\ git_puts = 1 /\ GitDone = 1 /\ git_pc = "get" /\ git_queue = <<>>
    /\ gl_puts = 1 /\ GitlabDone = 1 /\ gl_pc = "get" /\ gitlab_queue = <<>>
    /\ downstream[RepoOrder[1]] = Mirrored(upstream)
====
